---- MODULE Spec2Model ----
(***************************************************************************)
(* A model of the emissions calculator: the generic lookup engine          *)
(* (src/src/lookup.py) and the per-record emission aggregator              *)
(* (src/src/emissions_calculator.py).                                      *)
(*                                                                         *)
(* Spec      is the lookup engine: one call of lookup(), stepped through   *)
(*           its primary pass, its fallback loop and its except clause.    *)
(* CalcSpec  is calculate_annual_emissions: one loop iteration per         *)
(*           operational record.                                           *)
(***************************************************************************)
EXTENDS Integers, Sequences, FiniteSets, TLC

VARIABLES
    \* ---- one call of lookup() ----
    df,                 \* the table argument
    criteria,           \* the criteria dict, in insertion order
    output_columns,     \* None or a list of column names
    output_format,      \* 'dataframe' | 'dictionary_list' | anything else
    fallback_criteria,  \* the list of overlays ([] stands for None as well)
    pc,                 \* position inside lookup()
    fb_i,               \* index of the overlay the fallback loop is at
    exc,                \* the exception in flight ("none" when there is none)
    result,             \* the value lookup() returned (at pc = "done")
    attempts,           \* the criteria logged by the prints of lines 51 and 63
    \* ---- one run of calculate_annual_emissions() ----
    operation_data, fuel_data, refrigerant_gwp, refrigerator_data,
    vehicle_interventions, vehicle_interventions_tru, farm_emissions,
    current_year,       \* datetime.datetime.now().year
    row_i,              \* index of the next operational record
    locals,             \* the stage 1 and 2 values of the last loop iteration
    results,            \* the list of emission records appended so far
    status              \* "loop", "returned", or "aborted" by an exception

lookup_vars == <<df, criteria, output_columns, output_format, fallback_criteria,
                 pc, fb_i, exc, result, attempts>>
calc_vars == <<operation_data, fuel_data, refrigerant_gwp, refrigerator_data,
               vehicle_interventions, vehicle_interventions_tru, farm_emissions,
               current_year, row_i, locals, results, status>>
vars == <<lookup_vars, calc_vars>>

(***************************************************************************)
(* Bounds of the model.                                                    *)
(***************************************************************************)
MaxRows == 2        \* rows of the table a lookup call is given
MaxFallback == 2    \* overlays of the fallback sequence a lookup call is given
MaxRecords == 2     \* operational records of one aggregation run

(***************************************************************************)
(* Scalars.  A cell of a table is a string or a float.  Floats are exact   *)
(* rationals n/d in lowest terms with d > 0; the float NaN (what pandas    *)
(* stores for a missing cell) is the value with d = 0.                     *)
(***************************************************************************)
Str(s) == [s |-> s]
IsStr(c) == "s" \in DOMAIN c

NaN == [n |-> 0, d |-> 0]
IsNaN(c) == (~IsStr(c)) /\ c.d = 0

Abs(i) == IF i < 0 THEN 0 - i ELSE i

RECURSIVE Gcd(_, _)
Gcd(a, b) == IF b = 0 THEN a ELSE Gcd(b, a % b)

\* the float n/d
Rat(n, d) ==
    IF d = 0 THEN NaN
    ELSE LET g == Gcd(Abs(n), Abs(d))
             sgn == IF d < 0 THEN 0 - 1 ELSE 1
         IN [n |-> sgn * (n \div g), d |-> sgn * (d \div g)]

Num(i) == [n |-> i, d |-> 1]
Zero == Num(0)

\* float arithmetic: NaN propagates through every operation
FAdd(x, y) == IF IsNaN(x) \/ IsNaN(y) THEN NaN ELSE Rat(x.n * y.d + y.n * x.d, x.d * y.d)
FMul(x, y) == IF IsNaN(x) \/ IsNaN(y) THEN NaN ELSE Rat(x.n * y.n, x.d * y.d)
\* x / y for y # 0 (the only division of the program is guarded, line 217)
FDiv(x, y) == IF IsNaN(x) \/ IsNaN(y) THEN NaN ELSE Rat(x.n * y.d, x.d * y.n)

\* the comparisons of floats: every comparison with NaN is False
FEq(x, y) == (~IsNaN(x)) /\ (~IsNaN(y)) /\ x = y
FLt(x, y) == (~IsNaN(x)) /\ (~IsNaN(y)) /\ x.n * y.d < y.n * x.d

\* ==  of two scalars: strings by content, floats by FEq, a string never
\* equals a float
CellEq(x, y) ==
    IF IsStr(x) /\ IsStr(y) THEN x = y
    ELSE IF IsStr(x) \/ IsStr(y) THEN FALSE
    ELSE FEq(x, y)

\* bool(x) of a scalar: 0 and '' are falsy, NaN is truthy
CellTruthy(x) == IF IsStr(x) THEN x.s # "" ELSE IsNaN(x) \/ x.n # 0

(***************************************************************************)
(* Python values of the lookup engine.                                     *)
(*   table (DataFrame)  [columns |-> <<names>>, rows |-> <<row, ...>>],    *)
(*                      a row a function from the column names to cells    *)
(*   None               NoneValue                                          *)
(*   list of names      [list |-> <<names>>]                               *)
(*   list of dicts      [dicts |-> <<row, ...>>]                           *)
(*   criteria           a sequence of entries [col |-> name, cv |-> value] *)
(*                      in the dict's insertion order; value is a literal  *)
(*                      [lit |-> cell] or a tuple [items |-> <<cells>>]    *)
(***************************************************************************)
NoneValue == [none |-> TRUE]
IsNone(x) == "none" \in DOMAIN x
IsDataFrame(x) == "columns" \in DOMAIN x
IsDictList(x) == "dicts" \in DOMAIN x

DataFrame(cols, rws) == [columns |-> cols, rows |-> rws]
EmptyDataFrame == DataFrame(<<>>, <<>>)          \* pd.DataFrame()
DictList(rws) == [dicts |-> rws]
ColumnList(cols) == [list |-> cols]

Lit(c) == [lit |-> c]
Tuple(items) == [items |-> items]
IsTuple(cv) == "items" \in DOMAIN cv
Entry(col, cv) == [col |-> col, cv |-> cv]

Range(s) == {s[i] : i \in DOMAIN s}
HasColumn(t, col) == col \in Range(t.columns)

Ok(v) == [exc |-> "none", val |-> v]
Raise(e) == [exc |-> e, val |-> NoneValue]

(***************************************************************************)
(* _perform_lookup (lookup.py 77-162).                                     *)
(***************************************************************************)
ValidOperators == {">", "<", ">=", "<=", "="}

\* Compare with >= and <= read as > and <
CompareStrict(op, cell, value) ==
    IF op \in {">", ">="} THEN FLt(value, cell)
    ELSE IF op \in {"<", "<="} THEN FLt(cell, value)
    ELSE CellEq(cell, value)

\* df[col] <op> value on one cell.  The ordering comparators are modelled on
\* floats; a string on one side only is the TypeError of pandas.
Compare(op, cell, value) ==
    IF op = ">" THEN FLt(value, cell)
    ELSE IF op = "<" THEN FLt(cell, value)
    ELSE IF op = ">=" THEN FLt(value, cell) \/ FEq(cell, value)
    ELSE IF op = "<=" THEN FLt(cell, value) \/ FEq(cell, value)
    ELSE CellEq(cell, value)

\* the boolean Series  df[col] == value  (line 123 and line 128)
equality_mask(t, col, value) ==
    IF ~HasColumn(t, col) THEN Raise("KeyError")
    ELSE Ok([i \in DOMAIN t.rows |-> CellEq(t.rows[i][col], value)])

\* the boolean Series  df[col] <operator> value  (lines 114-125)
operator_mask(t, col, operator, value) ==
    IF operator \notin {Str(o) : o \in ValidOperators} THEN Raise("ValueError")
    ELSE IF IsStr(col) = FALSE \/ ~HasColumn(t, col.s) THEN Raise("KeyError")
    ELSE IF operator.s = "=" THEN equality_mask(t, col.s, value)
    ELSE IF \E i \in DOMAIN t.rows : IsStr(t.rows[i][col.s]) # IsStr(value)
         THEN Raise("TypeError")
    ELSE Ok([i \in DOMAIN t.rows |-> Compare(operator.s, t.rows[i][col.s], value)])

\* the mask of one criteria item (lines 101-128)
criteria_mask(t, entry) ==
    IF IsTuple(entry.cv) THEN
        LET items == entry.cv.items IN
        IF Len(items) = 3 THEN operator_mask(t, items[1], items[2], items[3])
        ELSE IF Len(items) = 2 THEN operator_mask(t, Str(entry.col), items[1], items[2])
        ELSE Raise("ValueError")
    ELSE equality_mask(t, entry.col, entry.cv.lit)

\* the loop of lines 100-131 from item k on: combined_mask &= criteria_mask
RECURSIVE combined_mask(_, _, _, _)
combined_mask(t, crit, k, mask) ==
    IF k > Len(crit) THEN Ok(mask)
    ELSE LET m == criteria_mask(t, crit[k]) IN
         IF m.exc # "none" THEN m
         ELSE combined_mask(t, crit, k + 1, [i \in DOMAIN mask |-> mask[i] /\ m.val[i]])

\* matched_rows with the selected rows in reverse table order
RECURSIVE matched_rows_reversed(_, _, _)
matched_rows_reversed(rws, mask, k) ==
    IF k > Len(rws) THEN <<>>
    ELSE IF mask[k] THEN matched_rows_reversed(rws, mask, k + 1) \o <<rws[k]>>
    ELSE matched_rows_reversed(rws, mask, k + 1)

\* df[combined_mask] (line 134): the selected rows, in table order
RECURSIVE matched_rows(_, _, _)
matched_rows(rws, mask, k) ==
    IF k > Len(rws) THEN <<>>
    ELSE IF mask[k] THEN <<rws[k]>> \o matched_rows(rws, mask, k + 1)
    ELSE matched_rows(rws, mask, k + 1)

\* {key: row[key] for key in output_columns} (line 157)
Project(row, cols) == [c \in Range(cols) |-> row[c]]

perform_lookup(t, crit, cols, fmt) ==
    IF ~IsDataFrame(t) THEN Raise("TypeError")
    ELSE LET m == combined_mask(t, crit, 1, [i \in DOMAIN t.rows |-> TRUE]) IN
         IF m.exc # "none" THEN Raise(m.exc)
         ELSE LET sel == matched_rows(t.rows, m.val, 1)
                  unknown == IF IsNone(cols) THEN FALSE
                             ELSE \E c \in Range(cols.list) : ~HasColumn(t, c)
              IN IF fmt = "dataframe" THEN
                     IF IsNone(cols) THEN Ok(DataFrame(t.columns, sel))
                     ELSE IF unknown THEN Raise("KeyError")
                     ELSE Ok(DataFrame(cols.list,
                                       [i \in DOMAIN sel |-> Project(sel[i], cols.list)]))
                 ELSE IF fmt = "dictionary_list" THEN
                     IF IsNone(cols) THEN Ok(DictList(sel))
                     ELSE IF Len(sel) > 0 /\ unknown THEN Raise("KeyError")
                     ELSE Ok(DictList([i \in DOMAIN sel |-> Project(sel[i], cols.list)]))
                 ELSE Raise("ValueError")

(***************************************************************************)
(* lookup (lookup.py 14-74).                                               *)
(***************************************************************************)
\* bool(result) of `if result:` (lines 55, 65): a list is truthy when it is
\* not empty; the truth value of a DataFrame is a ValueError
Truthy(val) ==
    IF IsDictList(val) THEN Ok(Len(val.dicts) > 0) ELSE Raise("ValueError")

\* `if result:` on what _perform_lookup gave (lines 55, 65): hit tells whether
\* the branch is taken
if_result(r) ==
    IF r.exc # "none" THEN [exc |-> r.exc, hit |-> FALSE, val |-> NoneValue]
    ELSE LET b == Truthy(r.val) IN
         IF b.exc # "none" THEN [exc |-> b.exc, hit |-> FALSE, val |-> NoneValue]
         ELSE [exc |-> "none", hit |-> b.val, val |-> r.val]

\* one attempt: _perform_lookup followed by `if result:`
Attempt(t, crit, cols, fmt) == if_result(perform_lookup(t, crit, cols, fmt))

\* d[key] = value on an insertion-ordered dict
SetItem(crit, e) ==
    IF \E k \in DOMAIN crit : crit[k].col = e.col
    THEN [k \in DOMAIN crit |-> IF crit[k].col = e.col THEN e ELSE crit[k]]
    ELSE Append(crit, e)

\* updated_criteria = criteria.copy(); updated_criteria.update(criteria_update)
RECURSIVE Update(_, _, _)
Update(crit, overlay, k) ==
    IF k > Len(overlay) THEN crit
    ELSE Update(SetItem(crit, overlay[k]), overlay, k + 1)

updated_criteria(crit, overlay) == Update(crit, overlay, 1)

\* EmptyResult returning None in place of an empty collection
EmptyResultNone(fmt) == NoneValue

\* pd.DataFrame() if output_format == 'dataframe' else []   (lines 70, 74)
EmptyResult(fmt) == IF fmt = "dataframe" THEN EmptyDataFrame ELSE DictList(<<>>)

\* CaughtExceptions without KeyError
CaughtWithoutKeyError == {"IndexError", "TypeError", "ValueError"}

\* except (KeyError, IndexError, TypeError, ValueError)   (line 72)
CaughtExceptions == {"KeyError", "IndexError", "TypeError", "ValueError"}

\* `if result: return result` (lines 55-56, 65-66) after the attempt a: an
\* exception propagates, a hit is returned, otherwise the code that follows runs
return_if_result(a, following) ==
    IF a.exc # "none" THEN Raise(a.exc)
    ELSE IF a.hit THEN Ok(a.val)
    ELSE following

\* the fallback loop of lines 59-66 from overlay k on, then line 70
RECURSIVE fallback_loop(_, _, _, _, _, _)
fallback_loop(t, crit, cols, fmt, fb, k) ==
    IF k > Len(fb) THEN Ok(EmptyResult(fmt))
    ELSE return_if_result(Attempt(t, updated_criteria(crit, fb[k]), cols, fmt),
                          fallback_loop(t, crit, cols, fmt, fb, k + 1))

\* the body of the try block (lines 51-70)
lookup_body(t, crit, cols, fmt, fb) ==
    return_if_result(Attempt(t, crit, cols, fmt), fallback_loop(t, crit, cols, fmt, fb, 1))

\* the except clause of lines 72-74 around the outcome r of the try block
except_clause(r, fmt) ==
    IF r.exc = "none" THEN r
    ELSE IF r.exc \in CaughtExceptions THEN Ok(EmptyResult(fmt))
    ELSE r

\* lookup(): the value returned, or the exception that leaves the function
lookup(t, crit, cols, fmt, fb) == except_clause(lookup_body(t, crit, cols, fmt, fb), fmt)

(***************************************************************************)
(* The inputs of one lookup call.                                          *)
(***************************************************************************)
SeqUpTo(S, n) == UNION {[1..k -> S] : k \in 0..n}
NonEmptySeqUpTo(S, n) == UNION {[1..k -> S] : k \in 1..n}

Columns == <<"a", "b">>
CellValues == {Num(0), Num(1)}
TableRows == [Range(Columns) -> CellValues]
Tables == {DataFrame(Columns, rws) : rws \in SeqUpTo(TableRows, MaxRows)}

OrderOperators == {">", "<", ">=", "<="}

\* {col: v}, col a column of the table or not ("z"), and {'a': v, 'b': w}
EqualityCriteria ==
    {<<Entry(c, Lit(v))>> : c \in {"a", "b", "z"}, v \in CellValues}
    \cup {<<Entry("a", Lit(v)), Entry("b", Lit(w))>> : v, w \in CellValues}

\* {'a': (op, v)} with a valid or an invalid operator token,
\* {'a': (op, v), 'b': (op2, 1)} and {'a': v, 'b': (op, 1)}
OperatorCriteria ==
    {<<Entry("a", Tuple(<<Str(o), v>>))>> : o \in ValidOperators \cup {"!="}, v \in CellValues}
    \cup {<<Entry("a", Tuple(<<Str(o), v>>)), Entry("b", Tuple(<<Str(o2), Num(1)>>))>> :
            o \in OrderOperators, o2 \in OrderOperators, v \in CellValues}
    \cup {<<Entry("a", Lit(v)), Entry("b", Tuple(<<Str(o), Num(1)>>))>> :
            o \in {">=", "<"}, v \in CellValues}

\* tuples of length 3 (column override under a synthetic key) and tuples of a
\* length that is neither 2 nor 3
TupleCriteria ==
    {<<Entry("z", Tuple(<<Str(c), Str(o), v>>))>> :
            c \in {"a", "q"}, o \in {">", "=", "!="}, v \in CellValues}
    \cup {<<Entry("y", Tuple(<<Str("a"), Str(">="), Num(1)>>)),
            Entry("z", Tuple(<<Str("a"), Str("<="), v>>))>> : v \in CellValues}
    \cup {<<Entry("a", Tuple(<<Str(">")>>))>>,
          <<Entry("a", Tuple(<<>>))>>,
          <<Entry("a", Tuple(<<Str("a"), Str(">"), Num(0), Num(1)>>))>>,
          <<Entry("a", Lit(Num(1))), Entry("b", Tuple(<<Num(1)>>))>>}

OutputColumns == {NoneValue, ColumnList(<<"b">>), ColumnList(<<"z">>)}
OutputFormats == {"dictionary_list", "dataframe", "csv"}

\* overlays {col: v}
Overlays == {<<Entry(c, Lit(v))>> : c \in {"a", "b"}, v \in CellValues}
            \cup {<<Entry("z", Lit(Num(0)))>>}
FallbackPrimaries ==
    {<<Entry("a", Lit(v)), Entry("b", Lit(w))>> : v, w \in CellValues}
    \cup {<<Entry("a", Lit(Num(1)))>>, <<Entry("z", Lit(Num(0)))>>,
          <<Entry("a", Tuple(<<Str(">"), Num(0)>>)), Entry("b", Lit(Num(1)))>>}

\* calls without a fallback sequence, and calls with one
PlainCalls ==
    [t : Tables,
     crit : EqualityCriteria \cup OperatorCriteria \cup TupleCriteria,
     cols : OutputColumns, fmt : OutputFormats, fb : {<<>>}]
FallbackCalls ==
    [t : Tables, crit : FallbackPrimaries,
     cols : OutputColumns, fmt : {"dictionary_list", "dataframe"},
     fb : NonEmptySeqUpTo(Overlays, MaxFallback)]

(***************************************************************************)
(* Spec: one call of lookup(), a step per attempt.                         *)
(***************************************************************************)
CalcIdle ==
    /\ operation_data = NoneValue /\ fuel_data = NoneValue
    /\ refrigerant_gwp = NoneValue /\ refrigerator_data = NoneValue
    /\ vehicle_interventions = NoneValue /\ vehicle_interventions_tru = NoneValue
    /\ farm_emissions = NoneValue
    /\ current_year = 0 /\ row_i = 0 /\ locals = NoneValue /\ results = <<>>
    /\ status = "idle"

Init ==
    /\ \E call \in PlainCalls \cup FallbackCalls :
          /\ df = call.t
          /\ criteria = call.crit
          /\ output_columns = call.cols
          /\ output_format = call.fmt
          /\ fallback_criteria = call.fb
    /\ pc = "primary"
    /\ fb_i = 1
    /\ exc = "none"
    /\ result = NoneValue
    /\ attempts = <<>>
    /\ CalcIdle

args == <<df, criteria, output_columns, output_format, fallback_criteria>>

\* lines 51-56: the primary pass
Primary ==
    /\ pc = "primary"
    /\ attempts' = Append(attempts, criteria)
    /\ LET a == Attempt(df, criteria, output_columns, output_format) IN
       IF a.exc # "none"
       THEN pc' = "except" /\ exc' = a.exc /\ UNCHANGED result
       ELSE IF a.hit
       THEN pc' = "done" /\ result' = a.val /\ UNCHANGED exc
       ELSE /\ pc' = IF Len(fallback_criteria) > 0 THEN "fallback" ELSE "no_match"
            /\ UNCHANGED <<exc, result>>
    /\ UNCHANGED <<args, fb_i, calc_vars>>

\* Fallback with the overlay merged onto the criteria of the previous attempt
FallbackCarryOver ==
    /\ pc = "fallback"
    /\ LET updated == updated_criteria(attempts[Len(attempts)], fallback_criteria[fb_i])
           a == Attempt(df, updated, output_columns, output_format)
       IN /\ attempts' = Append(attempts, updated)
          /\ IF a.exc # "none"
             THEN pc' = "except" /\ exc' = a.exc /\ UNCHANGED <<result, fb_i>>
             ELSE IF a.hit
             THEN pc' = "done" /\ result' = a.val /\ UNCHANGED <<exc, fb_i>>
             ELSE /\ fb_i' = fb_i + 1
                  /\ pc' = IF fb_i < Len(fallback_criteria) THEN "fallback" ELSE "no_match"
                  /\ UNCHANGED <<exc, result>>
    /\ UNCHANGED <<args, calc_vars>>

\* lines 60-66: one iteration of the fallback loop
Fallback ==
    /\ pc = "fallback"
    /\ LET updated == updated_criteria(criteria, fallback_criteria[fb_i])
           a == Attempt(df, updated, output_columns, output_format)
       IN /\ attempts' = Append(attempts, updated)
          /\ IF a.exc # "none"
             THEN pc' = "except" /\ exc' = a.exc /\ UNCHANGED <<result, fb_i>>
             ELSE IF a.hit
             THEN pc' = "done" /\ result' = a.val /\ UNCHANGED <<exc, fb_i>>
             ELSE /\ fb_i' = fb_i + 1
                  /\ pc' = IF fb_i < Len(fallback_criteria) THEN "fallback" ELSE "no_match"
                  /\ UNCHANGED <<exc, result>>
    /\ UNCHANGED <<args, calc_vars>>

\* lines 69-70: nothing matched
NoMatch ==
    /\ pc = "no_match"
    /\ result' = EmptyResult(output_format)
    /\ pc' = "done"
    /\ UNCHANGED <<args, fb_i, exc, attempts, calc_vars>>

\* Except with a caught failure ending the failing attempt only: the lookup
\* goes on with the next overlay
ExceptResume ==
    /\ pc = "except"
    /\ IF exc \notin CaughtExceptions
       THEN pc' = "raised" /\ UNCHANGED <<result, fb_i, exc>>
       ELSE IF Len(attempts) <= Len(fallback_criteria)
       THEN pc' = "fallback" /\ fb_i' = Len(attempts) /\ exc' = "none" /\ UNCHANGED result
       ELSE result' = EmptyResult(output_format) /\ pc' = "done" /\ UNCHANGED <<fb_i, exc>>
    /\ UNCHANGED <<args, attempts, calc_vars>>

\* lines 72-74: the except clause; any other exception leaves lookup()
Except ==
    /\ pc = "except"
    /\ IF exc \in CaughtExceptions
       THEN result' = EmptyResult(output_format) /\ pc' = "done"
       ELSE pc' = "raised" /\ UNCHANGED result
    /\ UNCHANGED <<args, fb_i, exc, attempts, calc_vars>>

Next == Primary \/ Fallback \/ NoMatch \/ Except

Spec == Init /\ [][Next]_vars

\* the step machine returns what the function lookup() returns
StepsAgreeWithLookup ==
    pc = "done" =>
        Ok(result) = lookup(df, criteria, output_columns, output_format, fallback_criteria)

(***************************************************************************)
(* calculate_annual_emissions (emissions_calculator.py 17-259).            *)
(***************************************************************************)
\* first_or_zero with NaN for the default
first_or_nan(x, col) ==
    IF Len(x.dicts) > 0 THEN x.dicts[1][col] ELSE NaN

\* x[0][col] if x else 0, x the value a lookup returned   (lines 79 ... 158)
first_or_zero(x, col) ==
    IF Len(x.dicts) > 0 THEN x.dicts[1][col] ELSE Zero

\* x[0].get(col, 0) if x else 0   (lines 174, 179)
first_get_or_zero(x, col) ==
    IF Len(x.dicts) > 0
    THEN (IF col \in DOMAIN x.dicts[1] THEN x.dicts[1][col] ELSE Zero)
    ELSE Zero

\* f'co2e_{year}'   (lines 162, 164)
co2e_column(year) == "co2e_" \o ToString(year)

\* the strings of the operational records that pd.to_numeric reads as a number
NumericStrings == [s \in {"12"} |-> Num(12)]

\* pd.to_numeric(x, errors='coerce'): a number is kept, a string is parsed,
\* and what does not parse becomes NaN
to_numeric(x) ==
    IF IsStr(x)
    THEN (IF x.s \in DOMAIN NumericStrings THEN NumericStrings[x.s] ELSE NaN)
    ELSE x

\* x = pd.to_numeric(x, errors='coerce'); x if not pd.isna(x) else 0   (lines 184-209)
numeric_or_zero(x) == IF IsNaN(to_numeric(x)) THEN Zero ELSE to_numeric(x)

\* lookup(table, {key: value, ...}) in the default (row-sequence) format
Eq(col, value) == Entry(col, Lit(value))

\* the fallback sequences of lines 152-156 and 172
VehicleFallback ==
    << <<Eq("vehicle_production_year", Num(0))>>,
       <<Eq("vehicle_manufacturer", Str("Others"))>>,
       <<Eq("vehicle_production_year", Num(0)), Eq("vehicle_manufacturer", Str("Others"))>> >>
FuelFallback == << <<Eq("state_or_province", Str("Any"))>> >>

TruColumns == <<"co2e_per_kwh_diesel_tru", "tru_power_rating", "average_load_factor",
                "tru_annual_hours", "tru_plug_in_fraction_of_hours">>

\* line 161
fuel_mode(row) ==
    IF CellEq(row.entity, Str("vehicle")) /\ ~CellEq(row.fuel_type, Str("Electricity"))
    THEN "mobile" ELSE "stationary"

VehicleCriteria(row) ==
    <<Eq("vehicle_subcategory", row.vehicle_subcategory), Eq("fuel_type", row.fuel_type),
      Eq("vehicle_production_year", row.vehicle_production_year),
      Eq("vehicle_manufacturer", row.vehicle_manufacturer)>>
FuelCriteria(row) ==
    <<Eq("fuel_type", row.fuel_type), Eq("fuel_mode", Str(fuel_mode(row))),
      Eq("state_or_province", row.state_or_province)>>

\* stage 1, the ten lookup calls of lines 74-173, in call order
stage1_lookups(row) ==
    LET one(t, col, value, out) ==
            lookup(t, <<Eq(col, value)>>, ColumnList(<<out>>), "dictionary_list", <<>>)
    IN [annual_leakage_rate |->
            one(refrigerator_data, "refrigerator_type", row.refrigerator_type,
                "annual_leakage_rate"),
        refrigerant_gwp_value |->
            one(refrigerant_gwp, "refrigerant_type", row.refrigerant_type, "refrigerant_gwp"),
        tru_annual_leakage_rate |->
            one(refrigerator_data, "refrigerator_type",
                Str("Transportation Refrigeration Unit"), "annual_leakage_rate"),
        tru_refrigerant_gwp_value |->
            one(refrigerant_gwp, "refrigerant_type", row.tru_refrigerant_type,
                "refrigerant_gwp"),
        tru_data |->
            lookup(vehicle_interventions_tru,
                   <<Eq("tru_type", row.tru_subcategory), Eq("model_year", row.tru_model_year)>>,
                   ColumnList(TruColumns), "dictionary_list", <<>>),
        emission_per_unit_livestock |->
            one(farm_emissions, "subcategory", row.livestock_type, "emission_per_unit"),
        emission_per_unit_fertilizer |->
            one(farm_emissions, "subcategory", row.fertilizer_type, "emission_per_unit"),
        emission_per_unit_waste |->
            one(farm_emissions, "subcategory", row.waste_type, "emission_per_unit"),
        vehicle_fuel_efficiency |->
            lookup(vehicle_interventions, VehicleCriteria(row),
                   ColumnList(<<"fuel_efficiency">>), "dictionary_list", VehicleFallback),
        fuel_emission_factors |->
            lookup(fuel_data, FuelCriteria(row),
                   ColumnList(<<co2e_column(current_year),
                                co2e_column(row.target_completion_year.n)>>),
                   "dictionary_list", FuelFallback)]

\* lines 176-179 with the target-year column read only in the branch of line 177
forecast_single_row_only(row, factors, current) ==
    IF FEq(row.target_completion_year, Num(current_year)) /\ Len(factors.dicts) = 1
    THEN current
    ELSE Zero

\* lines 176-179
fuel_emission_factor_forecast(row, factors, current) ==
    IF FEq(row.target_completion_year, Num(current_year)) /\ Len(factors.dicts) = 1
    THEN current
    ELSE first_get_or_zero(factors, co2e_column(row.target_completion_year.n))

\* the values of stages 1 and 2 (lines 79-209), L the values the lookups returned
stage_values(row, L) ==
    LET current == first_get_or_zero(L.fuel_emission_factors, co2e_column(current_year))
    IN [annual_leakage_rate |-> first_or_zero(L.annual_leakage_rate, "annual_leakage_rate"),
        refrigerant_gwp_value |-> first_or_zero(L.refrigerant_gwp_value, "refrigerant_gwp"),
        tru_annual_leakage_rate |->
            first_or_zero(L.tru_annual_leakage_rate, "annual_leakage_rate"),
        tru_refrigerant_gwp_value |->
            first_or_zero(L.tru_refrigerant_gwp_value, "refrigerant_gwp"),
        emission_factor_diesel_tru |-> first_or_zero(L.tru_data, "co2e_per_kwh_diesel_tru"),
        tru_power_rating |-> first_or_zero(L.tru_data, "tru_power_rating"),
        average_tru_load_factor |-> first_or_zero(L.tru_data, "average_load_factor"),
        tru_annual_hours |-> first_or_zero(L.tru_data, "tru_annual_hours"),
        tru_plug_in_fraction_of_hours |->
            first_or_zero(L.tru_data, "tru_plug_in_fraction_of_hours"),
        emission_per_unit_livestock |->
            first_or_zero(L.emission_per_unit_livestock, "emission_per_unit"),
        emission_per_unit_fertilizer |->
            first_or_zero(L.emission_per_unit_fertilizer, "emission_per_unit"),
        emission_per_unit_waste |->
            first_or_zero(L.emission_per_unit_waste, "emission_per_unit"),
        vehicle_fuel_efficiency |->
            first_or_zero(L.vehicle_fuel_efficiency, "fuel_efficiency"),
        fuel_emission_factor_current |-> current,
        fuel_emission_factor_forecast |->
            fuel_emission_factor_forecast(row, L.fuel_emission_factors, current),
        fuel_amount |-> numeric_or_zero(row.fuel_amount),
        refrigerant_charge |-> numeric_or_zero(row.refrigerant_charge),
        number_of_refrigerators |-> numeric_or_zero(row.number_of_refrigerators),
        operating_distance |-> numeric_or_zero(row.operating_distance),
        tru_number_of_vehicle_units |-> numeric_or_zero(row.tru_number_of_vehicle_units),
        tru_refrigerant_charge |-> numeric_or_zero(row.tru_refrigerant_charge),
        livestock_count |-> numeric_or_zero(row.livestock_count),
        fertilizer_amount |-> numeric_or_zero(row.fertilizer_amount),
        waste_amount |-> numeric_or_zero(row.waste_amount)]

\* line 214
fuel_emissions(v) ==
    FDiv(FMul(v.fuel_amount,
              FAdd(v.fuel_emission_factor_forecast, v.fuel_emission_factor_current)),
         Num(2))

\* lines 216-217 without the guard on vehicle_fuel_efficiency
vehicle_emissions_unguarded(v) ==
    FMul(FDiv(v.operating_distance, v.vehicle_fuel_efficiency),
         FDiv(FAdd(v.fuel_emission_factor_forecast, v.fuel_emission_factor_current), Num(2)))

\* lines 216-217
vehicle_emissions(v) ==
    IF CellTruthy(v.vehicle_fuel_efficiency)
    THEN FMul(FDiv(v.operating_distance, v.vehicle_fuel_efficiency),
              FDiv(FAdd(v.fuel_emission_factor_forecast, v.fuel_emission_factor_current),
                   Num(2)))
    ELSE Zero

\* lines 219-220
refrigerant_emissions(v) ==
    FMul(FMul(FMul(v.refrigerant_charge, v.annual_leakage_rate), v.refrigerant_gwp_value),
         v.number_of_refrigerators)

\* lines 222, 224, 226
livestock_emissions(v) == FMul(v.livestock_count, v.emission_per_unit_livestock)
fertilizer_emissions(v) == FMul(v.fertilizer_amount, v.emission_per_unit_fertilizer)
waste_emissions(v) == FMul(v.waste_amount, v.emission_per_unit_waste)

\* lines 228-231
tru_emissions(v) ==
    FMul(FAdd(FMul(FMul(FMul(FMul(v.tru_power_rating, v.average_tru_load_factor),
                             v.tru_annual_hours),
                        v.tru_plug_in_fraction_of_hours),
                   v.emission_factor_diesel_tru),
              FMul(FMul(v.tru_refrigerant_gwp_value, v.tru_refrigerant_charge),
                   v.tru_annual_leakage_rate)),
         v.tru_number_of_vehicle_units)

\* the sum of lines 233-235, left to right
Sum7(a, b, c, d, e, f, g) == FAdd(FAdd(FAdd(FAdd(FAdd(FAdd(a, b), c), d), e), f), g)

\* the emission record of lines 237-247
emission_record(row, v) ==
    LET fu == fuel_emissions(v)
        ve == vehicle_emissions(v)
        re == refrigerant_emissions(v)
        li == livestock_emissions(v)
        fe == fertilizer_emissions(v)
        wa == waste_emissions(v)
        tr == tru_emissions(v)
    IN [operation_id |-> row.operation_id,
        fuel_emissions |-> fu, vehicle_emissions |-> ve, refrigerant_emissions |-> re,
        livestock_emissions |-> li, fertilizer_emissions |-> fe, waste_emissions |-> wa,
        tru_emissions |-> tr,
        total_emissions |-> Sum7(fu, ve, re, li, fe, wa, tr)]

(***************************************************************************)
(* The inputs of one aggregation run.                                      *)
(***************************************************************************)
Table(cols, rws) == DataFrame(cols, [i \in DOMAIN rws |-> [j \in Range(cols) |-> rws[i][CHOOSE k \in DOMAIN cols : cols[k] = j]]])

OperationColumns ==
    <<"operation_id", "entity", "fuel_type", "fuel_amount", "operating_distance",
      "refrigerator_type", "refrigerant_type", "refrigerant_charge",
      "number_of_refrigerators", "vehicle_subcategory", "vehicle_production_year",
      "vehicle_manufacturer", "tru_subcategory", "tru_model_year", "tru_refrigerant_type",
      "tru_refrigerant_charge", "tru_number_of_vehicle_units", "livestock_type",
      "livestock_count", "fertilizer_type", "fertilizer_amount", "waste_type",
      "waste_amount", "target_completion_year", "state_or_province">>

\* a diesel truck in CA with every attribute filled, target year 2024
TruckRecord ==
    [operation_id |-> Num(1), entity |-> Str("vehicle"), fuel_type |-> Str("Diesel"),
     fuel_amount |-> Num(100), operating_distance |-> Num(40),
     refrigerator_type |-> Str("Fridge"), refrigerant_type |-> Str("R134a"),
     refrigerant_charge |-> Num(2), number_of_refrigerators |-> Num(3),
     vehicle_subcategory |-> Str("Truck"), vehicle_production_year |-> Num(2020),
     vehicle_manufacturer |-> Str("Ford"), tru_subcategory |-> Str("TRU-A"),
     tru_model_year |-> Num(2018), tru_refrigerant_type |-> Str("R134a"),
     tru_refrigerant_charge |-> Num(1), tru_number_of_vehicle_units |-> Num(2),
     livestock_type |-> Str("Cattle"), livestock_count |-> Num(10),
     fertilizer_type |-> Str("Urea"), fertilizer_amount |-> Num(4),
     waste_type |-> Str("Manure"), waste_amount |-> Num(5),
     target_completion_year |-> Num(2024), state_or_province |-> Str("CA")]

\* another make and year, another state, target year 2025, a fuel amount
\* written as text
OtherTruckRecord ==
    [TruckRecord EXCEPT !.operation_id = Num(2),
        !.vehicle_manufacturer = Str("Kia"), !.vehicle_production_year = Num(2019),
        !.state_or_province = Str("NY"), !.target_completion_year = Num(2025),
        !.fuel_amount = Str("12"), !.refrigerator_type = Str("Freezer")]

\* a building on electricity: no vehicle, no TRU, an unreadable fuel amount
BuildingRecord ==
    [TruckRecord EXCEPT !.operation_id = Num(3),
        !.entity = Str("building"), !.fuel_type = Str("Electricity"),
        !.fuel_amount = Str("n/a"), !.operating_distance = NaN,
        !.vehicle_subcategory = NaN, !.vehicle_production_year = NaN,
        !.vehicle_manufacturer = NaN, !.tru_subcategory = NaN, !.tru_model_year = NaN,
        !.tru_refrigerant_type = NaN, !.tru_refrigerant_charge = NaN,
        !.tru_number_of_vehicle_units = NaN, !.livestock_type = NaN,
        !.livestock_count = NaN]

\* ten cattle and nothing else, target year 2025
CattleRecord ==
    [c \in Range(OperationColumns) |->
        IF c = "operation_id" THEN Num(4)
        ELSE IF c = "livestock_type" THEN Str("Cattle")
        ELSE IF c = "livestock_count" THEN Num(10)
        ELSE IF c = "target_completion_year" THEN Num(2025)
        ELSE NaN]

OperationRecords == {TruckRecord, OtherTruckRecord, BuildingRecord, CattleRecord}
OperationTables ==
    {DataFrame(OperationColumns, rws) : rws \in SeqUpTo(OperationRecords, MaxRecords)}

FuelColumns == <<"fuel_type", "fuel_mode", "state_or_province", "co2e_2024", "co2e_2025">>
DieselCA == <<Str("Diesel"), Str("mobile"), Str("CA"), Rat(6, 5), Num(1)>>
DieselCA2 == <<Str("Diesel"), Str("mobile"), Str("CA"), Num(3), Num(4)>>
DieselAny == <<Str("Diesel"), Str("mobile"), Str("Any"), Num(2), Num(3)>>
DieselCAMissing == <<Str("Diesel"), Str("mobile"), Str("CA"), NaN, Num(1)>>
PowerAny == <<Str("Electricity"), Str("stationary"), Str("Any"), Rat(1, 2), Rat(1, 4)>>
FuelTables ==
    {Table(FuelColumns, rws) :
        rws \in {<<DieselCA, DieselAny, PowerAny>>, <<DieselAny>>, <<DieselCA, DieselCA2>>,
                 <<DieselCAMissing>>, <<>>}}

VehicleColumns == <<"vehicle_subcategory", "fuel_type", "vehicle_production_year",
                    "vehicle_manufacturer", "fuel_efficiency">>
Vehicle(year, make, efficiency) ==
    <<Str("Truck"), Str("Diesel"), Num(year), Str(make), efficiency>>
VehicleTables ==
    {Table(VehicleColumns, rws) :
        rws \in {<<Vehicle(2020, "Ford", Num(8))>>,
                 <<Vehicle(0, "Ford", Num(5)), Vehicle(0, "Kia", Num(6))>>,
                 <<Vehicle(2020, "Others", Num(4)), Vehicle(0, "Others", Num(10))>>,
                 <<Vehicle(2020, "Ford", Num(0))>>,
                 <<Vehicle(2020, "Ford", NaN)>>,
                 <<>>}}

RefrigeratorColumns == <<"refrigerator_type", "annual_leakage_rate">>
RefrigeratorTables ==
    {Table(RefrigeratorColumns, rws) :
        rws \in {<<<<Str("Fridge"), Rat(1, 10)>>,
                   <<Str("Transportation Refrigeration Unit"), Rat(1, 5)>>>>,
                 <<<<Str("Fridge"), NaN>>>>,
                 <<>>}}

GwpColumns == <<"refrigerant_type", "refrigerant_gwp">>
GwpTables == {Table(GwpColumns, rws) : rws \in {<<<<Str("R134a"), Num(3)>>>>}}

TruTableColumns == <<"tru_type", "model_year">> \o TruColumns
TruTables ==
    {Table(TruTableColumns, rws) :
        rws \in {<<<<Str("TRU-A"), Num(2018), Rat(1, 2), Num(2), Rat(1, 2), Num(4), Rat(1, 4)>>>>,
                 <<>>}}

FarmColumns == <<"subcategory", "emission_per_unit">>
FarmTables ==
    {Table(FarmColumns, rws) :
        rws \in {<<<<Str("Cattle"), Rat(5, 2)>>, <<Str("Urea"), Num(2)>>,
                   <<Str("Manure"), Num(1)>>>>,
                 <<>>}}

Years == {2024, 2025}

(***************************************************************************)
(* CalcSpec: one run of calculate_annual_emissions, a step per record.     *)
(***************************************************************************)
LookupIdle ==
    /\ df = NoneValue /\ criteria = <<>> /\ output_columns = NoneValue
    /\ output_format = "dictionary_list" /\ fallback_criteria = <<>>
    /\ pc = "idle" /\ fb_i = 1 /\ exc = "none" /\ result = NoneValue /\ attempts = <<>>

CalcInit ==
    /\ operation_data \in OperationTables
    /\ fuel_data \in FuelTables
    /\ refrigerant_gwp \in GwpTables
    /\ refrigerator_data \in RefrigeratorTables
    /\ vehicle_interventions \in VehicleTables
    /\ vehicle_interventions_tru \in TruTables
    /\ farm_emissions \in FarmTables
    /\ current_year \in Years
    /\ row_i = 1
    /\ locals = NoneValue
    /\ results = <<>>
    /\ status = "loop"
    /\ LookupIdle

inputs == <<operation_data, fuel_data, refrigerant_gwp, refrigerator_data,
            vehicle_interventions, vehicle_interventions_tru, farm_emissions, current_year>>

\* lines 69-247: the loop body for the record at row_i; an exception that
\* leaves a lookup call ends the run
ProcessRecord ==
    /\ status = "loop"
    /\ row_i <= Len(operation_data.rows)
    /\ \E row \in {operation_data.rows[row_i]} :
       \E called \in {stage1_lookups(row)} :
          IF \E f \in DOMAIN called : called[f].exc # "none"
          THEN status' = "aborted" /\ UNCHANGED <<row_i, locals, results>>
          ELSE \E v \in {stage_values(row, [f \in DOMAIN called |-> called[f].val])} :
               /\ locals' = v
               /\ results' = Append(results, emission_record(row, v))
               /\ row_i' = row_i + 1
               /\ UNCHANGED status
    /\ UNCHANGED <<inputs, lookup_vars>>

\* lines 249-259: the loop is over, the table of the records is returned
Return ==
    /\ status = "loop"
    /\ row_i > Len(operation_data.rows)
    /\ status' = "returned"
    /\ UNCHANGED <<inputs, row_i, locals, results, lookup_vars>>

CalcNext == ProcessRecord \/ Return

CalcSpec == CalcInit /\ [][CalcNext]_vars

(***************************************************************************)
(* What the lookup claims speak of, stated on the call's arguments.        *)
(***************************************************************************)
Returned == pc = "done"
Ended == pc \in {"done", "raised"}

\* the rows of rws at the positions keep, in table order
RowsAt(rws, keep) ==
    [j \in 1..Cardinality(keep) |->
        rws[CHOOSE i \in keep : Cardinality({m \in keep : m < i}) = j - 1]]

\* the column and the (comparator, value) a criteria entry stands for
EntryColumn(e) ==
    IF IsTuple(e.cv) /\ Len(e.cv.items) = 3 THEN e.cv.items[1] ELSE Str(e.col)
EntryOperator(e) ==
    IF IsTuple(e.cv) THEN e.cv.items[Len(e.cv.items) - 1] ELSE Str("=")
EntryValue(e) ==
    IF IsTuple(e.cv) THEN e.cv.items[Len(e.cv.items)] ELSE e.cv.lit

\* evaluating the entry fails: a tuple whose length is neither 2 nor 3, a
\* comparator token outside {=,>,<,>=,<=}, a column absent from the table
EntryFails(t, e) ==
    \/ IsTuple(e.cv) /\ Len(e.cv.items) \notin {2, 3}
    \/ EntryOperator(e) \notin {Str("="), Str(">"), Str("<"), Str(">="), Str("<=")}
    \/ ~IsStr(EntryColumn(e))
    \/ EntryColumn(e).s \notin Range(t.columns)
CriteriaFail(t, crit) == \E k \in DOMAIN crit : EntryFails(t, crit[k])

\* the row satisfies the predicate of the entry
EntryHolds(row, e) ==
    LET x == row[EntryColumn(e).s]
        v == EntryValue(e)
        o == EntryOperator(e).s
    IN  \/ o = "=" /\ CellEq(x, v)
        \/ o = ">" /\ FLt(v, x)
        \/ o = "<" /\ FLt(x, v)
        \/ o = ">=" /\ (FLt(v, x) \/ FEq(x, v))
        \/ o = "<=" /\ (FLt(x, v) \/ FEq(x, v))

\* the positions of the rows that satisfy every entry of a set of entries
\* (none when an entry fails)
Matching(t, entries) ==
    IF \E e \in entries : EntryFails(t, e) THEN {}
    ELSE {i \in DOMAIN t.rows : \A e \in entries : EntryHolds(t.rows[i], e)}

\* the criteria as a mapping, and the overlay merged onto it (overlay wins)
Keys(crit) == {crit[k].col : k \in DOMAIN crit}
ValueOf(crit, key) == (CHOOSE k \in DOMAIN crit : crit[k].col = key)
Merged(crit, overlay) ==
    [key \in Keys(crit) \cup Keys(overlay) |->
        IF key \in Keys(overlay) THEN overlay[ValueOf(overlay, key)].cv
        ELSE crit[ValueOf(crit, key)].cv]
AsMapping(crit) == [key \in Keys(crit) |-> crit[ValueOf(crit, key)].cv]
Entries(mapping) == {Entry(key, mapping[key]) : key \in DOMAIN mapping}

\* the call is lookup(T, criteria): default format, all columns
DefaultShape == output_format = "dictionary_list" /\ IsNone(output_columns)

\* C1: lookup(T, {col: v}), col a column of T, without fallback, returns
\* exactly the rows of T whose value in col equals v, in table order.
C1_EqualityExact ==
    (/\ Returned /\ DefaultShape /\ fallback_criteria = <<>>
     /\ Len(criteria) = 1 /\ ~IsTuple(criteria[1].cv)
     /\ HasColumn(df, criteria[1].col))
    => result = DictList(RowsAt(df.rows,
                   {i \in DOMAIN df.rows :
                       CellEq(df.rows[i][criteria[1].col], criteria[1].cv.lit)}))

\* an equality lookup on a two-row table has returned one row and left one out
C1_Witness ==
    /\ Returned /\ DefaultShape /\ fallback_criteria = <<>>
    /\ Len(criteria) = 1 /\ ~IsTuple(criteria[1].cv) /\ HasColumn(df, criteria[1].col)
    /\ Len(df.rows) = 2 /\ IsDictList(result) /\ Len(result.dicts) = 1

\* every entry of the criteria is a (comparator, value) pair, comparator an
\* ordering comparator
OrderCriteria(crit) ==
    /\ Len(crit) > 0
    /\ \A k \in DOMAIN crit :
          /\ IsTuple(crit[k].cv) /\ Len(crit[k].cv.items) = 2
          /\ crit[k].cv.items[1] \in {Str(">"), Str("<"), Str(">="), Str("<=")}

\* C2: for criteria of (comparator, value) pairs with comparator among
\* >, <, >=, <=, lookup returns exactly the rows that satisfy every entry's
\* predicate: all of them, no other row, in table order.
C2_ComparatorsExact ==
    (Returned /\ DefaultShape /\ OrderCriteria(criteria) /\ fallback_criteria = <<>>)
    => result = DictList(RowsAt(df.rows, Matching(df, Range(criteria))))

\* two comparator entries have selected one row of a two-row table
C2_Witness ==
    /\ Returned /\ DefaultShape /\ fallback_criteria = <<>>
    /\ OrderCriteria(criteria) /\ Len(criteria) = 2
    /\ Len(df.rows) = 2 /\ Len(result.dicts) = 1

\* the entries of overlay k merged onto the original criteria
Overlaid(k) == Entries(Merged(criteria, fallback_criteria[k]))
Least(S) == CHOOSE k \in S : \A m \in S : k <= m

\* the primary criteria evaluate and match no row, and there is a fallback
PrimaryMisses ==
    /\ DefaultShape /\ Len(fallback_criteria) > 0
    /\ ~CriteriaFail(df, criteria) /\ Matching(df, Range(criteria)) = {}

\* C3 as claimed: when the primary criteria match no row, the result is the
\* rows of the first overlay (merged onto the original criteria) that matches
\* a row, and no overlay after that one is evaluated.
C3_FirstMatchingOverlay ==
    (Returned /\ PrimaryMisses)
    => LET hits == {k \in DOMAIN fallback_criteria : Matching(df, Overlaid(k)) # {}} IN
       hits # {} =>
          /\ result = DictList(RowsAt(df.rows, Matching(df, Overlaid(Least(hits)))))
          /\ Len(attempts) = 1 + Least(hits)

\* C3 as amended: the overlays are tried in list order, each merged onto the
\* original criteria, up to the first one that matches a row (its rows are
\* returned) or whose evaluation fails (the result is empty); no overlay after
\* that one is evaluated, and when there is none the result is empty.
C3_FirstMatchingOrFailingOverlay ==
    (Returned /\ PrimaryMisses)
    => LET stops == {k \in DOMAIN fallback_criteria :
                        \/ Matching(df, Overlaid(k)) # {}
                        \/ \E e \in Overlaid(k) : EntryFails(df, e)}
           last == IF stops = {} THEN Len(fallback_criteria) ELSE Least(stops)
       IN /\ Len(attempts) = 1 + last
          /\ \A k \in 1..last :
                AsMapping(attempts[1 + k]) = Merged(criteria, fallback_criteria[k])
          /\ result = IF stops = {} THEN DictList(<<>>)
                      ELSE DictList(RowsAt(df.rows, Matching(df, Overlaid(last))))

\* the second overlay, which changes another key than the first, has matched
C3_Witness ==
    /\ Returned /\ PrimaryMisses
    /\ Len(attempts) = 3 /\ Len(result.dicts) > 0
    /\ Keys(fallback_criteria[1]) # Keys(fallback_criteria[2])
    /\ Keys(fallback_criteria[1]) \cup Keys(fallback_criteria[2]) \subseteq Keys(criteria)

\* no attempt of the call matches a row
NothingMatches ==
    /\ Matching(df, Range(criteria)) = {}
    /\ \A k \in DOMAIN fallback_criteria : Matching(df, Overlaid(k)) = {}

\* the empty collection of the requested shape
EmptyOfShape == IF output_format = "dataframe" THEN EmptyDataFrame ELSE DictList(<<>>)

\* C4: a lookup that matches no row, without fallback or with every overlay
\* tried in vain, returns the empty table (table format) or the empty
\* sequence (row-sequence format): it returns, and what it returns is not None.
C4_EmptyNotNone ==
    (Ended /\ output_format \in {"dataframe", "dictionary_list"} /\ NothingMatches)
    => Returned /\ result = EmptyOfShape

\* every overlay of a two-overlay fallback was tried and none matched
C4_Witness ==
    /\ Returned /\ output_format = "dictionary_list" /\ exc = "none"
    /\ Len(fallback_criteria) = 2 /\ Len(attempts) = 3
    /\ NothingMatches /\ Len(df.rows) > 0 /\ result = DictList(<<>>)

\* C5: no failure escapes lookup: when the evaluation of an attempt fails
\* (unknown column, invalid comparator token, tuple of a length other than 2
\* or 3) lookup returns the empty result of the requested format, and no call
\* ends with an exception raised to the caller.
C5_NoFailureEscapes ==
    /\ pc # "raised"
    /\ (Ended /\ \E i \in DOMAIN attempts : CriteriaFail(df, attempts[i]))
       => Returned /\ result = EmptyOfShape

\* a criterion of the primary criteria named an unknown column of a table
\* that has rows, and lookup returned
C5_Witness ==
    /\ Returned /\ exc = "KeyError" /\ Len(df.rows) > 0
    /\ \E k \in DOMAIN criteria : ~HasColumn(df, EntryColumn(criteria[k]).s)

\* C6: the table-shaped result holds the same rows, in the same order and
\* with the same projected columns, as the row-sequence result of the same call.
C6_FormatsAgree ==
    (Returned /\ output_format = "dataframe")
    => LET rowseq == lookup(df, criteria, output_columns, "dictionary_list",
                            fallback_criteria).val
       IN IsDataFrame(result) /\ result.rows = rowseq.dicts

(***************************************************************************)
(* What the aggregator claims speak of.                                    *)
(***************************************************************************)
\* the record the last loop iteration processed, and what it appended
LastRow == operation_data.rows[Len(results)]
LastRecord == results[Len(results)]

\* the lookup finds no row, with the primary criteria or with any overlay
Unresolved(t, crit, fb) ==
    /\ Matching(t, Range(crit)) = {}
    /\ \A k \in DOMAIN fb : Matching(t, Entries(Merged(crit, fb[k]))) = {}

\* C7: total_emissions is the sum of the seven subtotals in every emission
\* record, whatever the reference tables hold.
C7_TotalIsSum ==
    \A i \in DOMAIN results :
        FEq(results[i].total_emissions,
            FAdd(FAdd(FAdd(FAdd(FAdd(FAdd(results[i].fuel_emissions,
                                          results[i].vehicle_emissions),
                                     results[i].refrigerant_emissions),
                                results[i].livestock_emissions),
                           results[i].fertilizer_emissions),
                      results[i].waste_emissions),
                 results[i].tru_emissions))

\* C8: the run never aborts; it returns one emission record per operational
\* record, in input order and with the record's operation_id; and every
\* lookup of a record that finds no row contributes the value 0.
C8_OneRecordPerOperation ==
    /\ status # "aborted"
    /\ status = "returned" => Len(results) = Len(operation_data.rows)
    /\ Len(results) <= Len(operation_data.rows)
    /\ \A i \in DOMAIN results :
          results[i].operation_id = operation_data.rows[i].operation_id
    /\ Len(results) > 0 =>
          LET one(t, col, value) == Unresolved(t, <<Eq(col, value)>>, <<>>) IN
          /\ one(refrigerator_data, "refrigerator_type", LastRow.refrigerator_type)
                => locals.annual_leakage_rate = Zero
          /\ one(refrigerant_gwp, "refrigerant_type", LastRow.refrigerant_type)
                => locals.refrigerant_gwp_value = Zero
          /\ one(refrigerator_data, "refrigerator_type",
                 Str("Transportation Refrigeration Unit"))
                => locals.tru_annual_leakage_rate = Zero
          /\ one(refrigerant_gwp, "refrigerant_type", LastRow.tru_refrigerant_type)
                => locals.tru_refrigerant_gwp_value = Zero
          /\ Unresolved(vehicle_interventions_tru,
                        <<Eq("tru_type", LastRow.tru_subcategory),
                          Eq("model_year", LastRow.tru_model_year)>>, <<>>)
                => /\ locals.emission_factor_diesel_tru = Zero
                   /\ locals.tru_power_rating = Zero
                   /\ locals.average_tru_load_factor = Zero
                   /\ locals.tru_annual_hours = Zero
                   /\ locals.tru_plug_in_fraction_of_hours = Zero
          /\ one(farm_emissions, "subcategory", LastRow.livestock_type)
                => locals.emission_per_unit_livestock = Zero
          /\ one(farm_emissions, "subcategory", LastRow.fertilizer_type)
                => locals.emission_per_unit_fertilizer = Zero
          /\ one(farm_emissions, "subcategory", LastRow.waste_type)
                => locals.emission_per_unit_waste = Zero
          /\ Unresolved(vehicle_interventions, VehicleCriteria(LastRow), VehicleFallback)
                => locals.vehicle_fuel_efficiency = Zero
          /\ Unresolved(fuel_data, FuelCriteria(LastRow), FuelFallback)
                => /\ locals.fuel_emission_factor_current = Zero
                   /\ locals.fuel_emission_factor_forecast = Zero

\* a run of two different records over empty fuel and vehicle tables has returned
C8_Witness ==
    /\ status = "returned" /\ Len(results) = 2
    /\ results[1].operation_id # results[2].operation_id
    /\ fuel_data.rows = <<>> /\ vehicle_interventions.rows = <<>>
    /\ LastRow.fuel_type = Str("Diesel")

\* C9: when the vehicle fuel efficiency of a record resolves to 0 (no vehicle
\* row after the three fallbacks, or a matched row whose fuel_efficiency is 0)
\* its vehicle_emissions is 0 and the run is not aborted.
C9_ZeroEfficiencyGuard ==
    (/\ Len(results) > 0
     /\ \/ Unresolved(vehicle_interventions, VehicleCriteria(LastRow), VehicleFallback)
        \/ FEq(locals.vehicle_fuel_efficiency, Zero))
    => FEq(LastRecord.vehicle_emissions, Zero) /\ status # "aborted"

\* a matched vehicle row holds fuel_efficiency 0, and the record has a
\* distance and fuel factors that are not 0
C9_Witness ==
    /\ Len(results) > 0
    /\ ~Unresolved(vehicle_interventions, VehicleCriteria(LastRow), VehicleFallback)
    /\ locals.vehicle_fuel_efficiency = Zero
    /\ FLt(Zero, locals.operating_distance)
    /\ FLt(Zero, locals.fuel_emission_factor_current)
    /\ FLt(Zero, locals.fuel_emission_factor_forecast)

\* the current-year factor of the fuel lookup: the current-year cell of the
\* first row matching the record's fuel type, mode and jurisdiction, else of
\* the first row matching with jurisdiction 'Any', else 0
CurrentFactor(row) ==
    LET exact == Matching(fuel_data, Range(FuelCriteria(row)))
        any == Matching(fuel_data, Entries(Merged(FuelCriteria(row), FuelFallback[1])))
        cell(S) == fuel_data.rows[Least(S)][co2e_column(current_year)]
    IN IF exact # {} THEN cell(exact) ELSE IF any # {} THEN cell(any) ELSE Zero

\* C10: for a record whose target_completion_year is the current year the
\* forecast factor is the current-year factor of the one fuel lookup (the
\* same value, a missing cell included), and fuel_emissions is fuel_amount
\* times that factor.
C10_TargetIsCurrentYear ==
    (Len(results) > 0 /\ FEq(LastRow.target_completion_year, Num(current_year)))
    => /\ locals.fuel_emission_factor_current = CurrentFactor(LastRow)
       /\ locals.fuel_emission_factor_forecast = locals.fuel_emission_factor_current
       /\ LastRecord.fuel_emissions
             = FMul(numeric_or_zero(LastRow.fuel_amount), CurrentFactor(LastRow))

\* two fuel rows match a record of the current year 2024 whose fuel_amount is
\* 100; the first holds co2e_2024 = 1.2 and fuel_emissions is 120
C10_Witness ==
    /\ Len(results) > 0 /\ current_year = 2024
    /\ LastRow.target_completion_year = Num(2024) /\ LastRow.fuel_amount = Num(100)
    /\ Cardinality(Matching(fuel_data, Range(FuelCriteria(LastRow)))) = 2
    /\ CurrentFactor(LastRow) = Rat(6, 5)
    /\ LastRecord.fuel_emissions = Num(120)

(***************************************************************************)
(* ConfigSpec: runs of calculate_annual_emissions whose reference tables   *)
(* may be missing (None) and whose records may look ahead to a year the    *)
(* fuel table has no column for.                                           *)
(***************************************************************************)
\* the diesel truck of TruckRecord with target year 2026: no fuel table has
\* a co2e_2026 column
FutureTruckRecord ==
    [TruckRecord EXCEPT !.operation_id = Num(5), !.target_completion_year = Num(2026)]

ConfigRecords == {TruckRecord, FutureTruckRecord, CattleRecord}
ConfigOperationTables ==
    {DataFrame(OperationColumns, rws) : rws \in SeqUpTo(ConfigRecords, MaxRecords)}

\* a table argument that is a DataFrame of S, or None
MissingOr(S) == S \cup {NoneValue}

ConfigFuelTables ==
    MissingOr({Table(FuelColumns, rws) : rws \in {<<DieselCA, DieselAny, PowerAny>>, <<DieselAny>>}})
ConfigVehicleTables ==
    MissingOr({Table(VehicleColumns, <<Vehicle(2020, "Ford", Num(8))>>)})
ConfigRefrigeratorTables ==
    MissingOr({Table(RefrigeratorColumns,
                     <<<<Str("Fridge"), Rat(1, 10)>>,
                       <<Str("Transportation Refrigeration Unit"), Rat(1, 5)>>>>)})

ConfigInit ==
    /\ operation_data \in ConfigOperationTables
    /\ fuel_data \in ConfigFuelTables
    /\ refrigerant_gwp \in MissingOr(GwpTables)
    /\ refrigerator_data \in ConfigRefrigeratorTables
    /\ vehicle_interventions \in ConfigVehicleTables
    /\ vehicle_interventions_tru \in MissingOr(TruTables)
    /\ farm_emissions \in MissingOr(FarmTables)
    /\ current_year \in Years
    /\ row_i = 1
    /\ locals = NoneValue
    /\ results = <<>>
    /\ status = "loop"
    /\ LookupIdle

ConfigSpec == ConfigInit /\ [][CalcNext]_vars

\* the reference tables of the run
ReferenceTables ==
    {fuel_data, refrigerant_gwp, refrigerator_data, vehicle_interventions,
     vehicle_interventions_tru, farm_emissions}

\* C11: a run over at least one operational record with a reference table
\* that is not a table (None) is refused: it appends no emission record and
\* does not return.
C11_MissingTableRefused ==
    ((\E t \in ReferenceTables : ~IsDataFrame(t)) /\ Len(operation_data.rows) > 0)
    => (results = <<>> /\ status # "returned")

\* the fuel table has no column for the target-completion year of the record
\* row, a year other than the current one, and a row of it matches the
\* record's fuel type, mode and jurisdiction
TargetColumnAbsent(row) ==
    /\ IsDataFrame(fuel_data)
    /\ ~FEq(row.target_completion_year, Num(current_year))
    /\ ~HasColumn(fuel_data, co2e_column(row.target_completion_year.n))
    /\ Matching(fuel_data, Range(FuelCriteria(row))) # {}

\* C12: for such a record the absent forecast factor counts as 0: the
\* current-year factor is that of the matched row, the forecast factor is 0
\* and fuel_emissions = fuel_amount * (0 + current factor) / 2.
C12_AbsentForecastIsZero ==
    (Len(results) > 0 /\ TargetColumnAbsent(LastRow))
    => /\ locals.fuel_emission_factor_current = CurrentFactor(LastRow)
       /\ locals.fuel_emission_factor_forecast = Zero
       /\ LastRecord.fuel_emissions
             = FDiv(FMul(numeric_or_zero(LastRow.fuel_amount),
                         FAdd(Zero, CurrentFactor(LastRow))),
                    Num(2))

(***************************************************************************)
(* Failures inside a lookup with fallbacks.                                *)
(***************************************************************************)
\* the criteria of attempt i as a set of entries: the primary criteria for
\* i = 1, overlay i - 1 merged onto them after that
AttemptEntries(i) == IF i = 1 THEN Range(criteria) ELSE Overlaid(i - 1)

\* an output column is requested that the table does not have
UnknownOutputColumn ==
    (~IsNone(output_columns)) /\ \E c \in Range(output_columns.list) : ~HasColumn(df, c)

\* the evaluation of attempt i raises: an unknown column, an invalid
\* comparator or a malformed tuple among its entries, or an unknown output
\* column on a matched row
Raises(i) ==
    \/ \E e \in AttemptEntries(i) : EntryFails(df, e)
    \/ Matching(df, AttemptEntries(i)) # {} /\ UnknownOutputColumn

\* attempt i would return rows
WouldMatch(i) == Matching(df, AttemptEntries(i)) # {} /\ ~UnknownOutputColumn

\* C13: an attempt whose evaluation raises is the last attempt of the call,
\* whatever the overlays after it would match, and the call returns the
\* empty result.
C13_FailureEndsLookup ==
    \A i \in DOMAIN attempts :
        Raises(i) => /\ Len(attempts) = i
                     /\ pc \in {"except", "done"}
                     /\ Returned => result = EmptyOfShape

\* the first overlay failed after a primary pass without a hit, the second
\* overlay would have matched, and the call returned the empty sequence
C13_Witness ==
    /\ Returned /\ output_format = "dictionary_list"
    /\ Len(fallback_criteria) = 2 /\ Len(attempts) = 2
    /\ ~Raises(1) /\ Raises(2) /\ WouldMatch(3)
    /\ result = DictList(<<>>)

====
